---- MODULE Spec2Model ----
(***************************************************************************)
(* aws-mcp (src/index.ts): the tool-call handler, listCredentials,         *)
(* getCredentials (SSO session lookup, token cache scan, login, re-scan,   *)
(* role-credential exchange), useAWSCredentialsProvider, retryAwsOperation *)
(* and the script path (wrapUserCode, runInContext, JSON.stringify).       *)
(***************************************************************************)
EXTENDS Integers, Sequences, FiniteSets, TLC

\* ------------------------------------------------------------------ bounds
MaxFiles == 2
MaxTime == 1
MaxCalls == 2
MaxInflight == 2

\* ------------------------------------------------------- program constants
maxRetries == 3
delay == 1000

NULL == "null"
UNDEFINED == "undefined"
DefaultRegion == "us-east-1"

\* --------------------------------------------------------- configuration
\* A profile is the key/value bag IniLoader returns; "" is an absent key.
\* `defined` is FALSE for profiles[name] of a name that is not a key.
Profile(session, region) == [defined |-> TRUE, sso_session |-> session, region |-> region]
NoProfile == [defined |-> FALSE, sso_session |-> "", region |-> ""]

\* ~/.aws/credentials
CredentialsFile ==
    ("plain" :> Profile("", "us-west-2"))

\* ~/.aws/config, profile sections
ConfigFile ==
    ("plain" :> Profile("", "eu-west-1")) @@
    ("sso" :> Profile("s1", "eu-west-1")) @@
    ("ssoMissing" :> Profile("nosuch", "eu-west-1")) @@
    ("ssoNoUrl" :> Profile("s2", "eu-west-1"))

\* ~/.aws/config, [sso-session NAME] sections; "" is an absent sso_start_url
SsoSessions ==
    ("s1" :> [sso_start_url |-> "u1"]) @@
    ("s2" :> [sso_start_url |-> ""])

EmptyMap == [n \in {} |-> Profile("", "")]

\* The spread of line 292 written in the other order.
MergeProfilesFirstWins(credentials, configs) ==
    [n \in DOMAIN credentials \cup DOMAIN configs |->
        IF n \in DOMAIN credentials THEN credentials[n] ELSE configs[n]]

\* { ...(credentials || {}), ...(configs || {}) }
MergeProfiles(credentials, configs) ==
    [n \in DOMAIN credentials \cup DOMAIN configs |->
        IF n \in DOMAIN configs THEN configs[n] ELSE credentials[n]]

\* listCredentials: each source is read on its own; a failed read contributes
\* nothing.  The catch clauses assign to their own parameter `error`, which
\* shadows the function's `let error`, so the returned error stays undefined.
listCredentials(credOK, cfgOK) ==
    [profiles |-> MergeProfiles(IF credOK THEN CredentialsFile ELSE EmptyMap,
                                IF cfgOK THEN ConfigFile ELSE EmptyMap),
     error |-> UNDEFINED]

\* profiles[profileName]
Lookup(profiles, name) ==
    IF name \in DOMAIN profiles THEN profiles[name] ELSE NoProfile

\* if (creds.sso_session)
\* The test of line 306 written as a test for the profile being defined.
HasSsoSessionAnyProfile(creds) == creds.defined

HasSsoSession(creds) == creds.sso_session # ""

\* configContent.match(/\[sso-session NAME\][^[]*/)
SessionMatch(session) == session \in DOMAIN SsoSessions

\* sessionConfig.match(/sso_start_url\s*=\s*(.+)/)?.[1]
StartUrlOf(session) == SsoSessions[session].sso_start_url

\* ------------------------------------------------------------ token cache
\* One cache file: unparsable, or a JSON object.  accessToken "" and
\* expiresAt 0 stand for an absent (falsy) field.
Unparsable == [parses |-> FALSE, startUrl |-> "", accessToken |-> "", expiresAt |-> 0]
TokenFile(url, tok, exp) ==
    [parses |-> TRUE, startUrl |-> url, accessToken |-> tok, expiresAt |-> exp]

\* A file that does not parse, a token of the session "s1", the same without
\* its accessToken, and a token of another start URL.
CacheEntries ==
    {Unparsable, TokenFile("u1", "tok", 1), TokenFile("u1", "", 1),
     TokenFile("u2", "tok2", 1)}

RECURSIVE SeqsUpTo(_, _)
SeqsUpTo(S, n) ==
    IF n = 0 THEN {<<>>}
    ELSE LET shorter == SeqsUpTo(S, n - 1)
         IN shorter \cup {Append(s, x) : s \in {t \in shorter : Len(t) = n - 1}, x \in S}

\* cache.startUrl === startUrl && cache.accessToken && cache.expiresAt &&
\* new Date(cache.expiresAt) > new Date()
\* The comparison of lines 357 and 391 written with >= instead of >.
IsValidTokenInclusive(entry, url, t) ==
    /\ entry.parses
    /\ entry.startUrl = url
    /\ entry.accessToken # ""
    /\ entry.expiresAt # 0
    /\ entry.expiresAt >= t

IsValidToken(entry, url, t) ==
    /\ entry.parses
    /\ entry.startUrl = url
    /\ entry.accessToken # ""
    /\ entry.expiresAt # 0
    /\ entry.expiresAt > t

\* ------------------------------------------------------------------ retry
\* for (attempt = 1; attempt <= maxRetries; attempt++): is another try left?
\* The loop of line 42 running one attempt too many.
HasRetryLeftInclusive(a) == a <= maxRetries

HasRetryLeft(a) == a < maxRetries

\* setTimeout(resolve, delay * attempt)
BackoffDelay(a) == delay * a

\* ---------------------------------------------------------- SSO exchange
\* What sso.getRoleCredentials resolves to: which fields are present.
RoleCredentialsReply(rc, key, secret, token, exp) ==
    [roleCredentials |-> rc, accessKeyId |-> key, secretAccessKey |-> secret,
     sessionToken |-> token, expiration |-> exp]

\* The complete reply, a reply without roleCredentials, and the replies with
\* exactly one of the four fields missing.
RoleCredentialsResponses ==
    {RoleCredentialsReply(TRUE, TRUE, TRUE, TRUE, TRUE),
     RoleCredentialsReply(FALSE, FALSE, FALSE, FALSE, FALSE),
     RoleCredentialsReply(TRUE, FALSE, TRUE, TRUE, TRUE),
     RoleCredentialsReply(TRUE, TRUE, FALSE, TRUE, TRUE),
     RoleCredentialsReply(TRUE, TRUE, TRUE, FALSE, TRUE),
     RoleCredentialsReply(TRUE, TRUE, TRUE, TRUE, FALSE)}

\* The check of line 429 without its test of `expiration`.
IsCompleteWithoutExpiration(r) ==
    /\ r.roleCredentials
    /\ r.accessKeyId
    /\ r.secretAccessKey
    /\ r.sessionToken

\* roleCredentials.roleCredentials present and none of the four fields missing
IsCompleteRoleCredentials(r) ==
    /\ r.roleCredentials
    /\ r.accessKeyId
    /\ r.secretAccessKey
    /\ r.sessionToken
    /\ r.expiration

\* new AWS.Credentials(...) / the legacy chain's resolved credentials
Credentials(source, profileName) == [source |-> source, profile |-> profileName]
NoCredentials == [source |-> UNDEFINED, profile |-> UNDEFINED]

\* ----------------------------------------------------------------- scripts
\* A script is its statement list.  A statement is an expression statement or
\* a return statement carrying a value, a declaration, or a throw.
MaxStmts == 2
ScriptValues == {"42", "cyclic"}
Stmt(kind, value) == [kind |-> kind, value |-> value]
Statements ==
    {Stmt(k, v) : k \in {"ExpressionStatement", "ReturnStatement"}, v \in ScriptValues}
    \cup {Stmt("VariableStatement", UNDEFINED), Stmt("ThrowStatement", "boom")}
Scripts == SeqsUpTo(Statements, MaxStmts)

\* wrapUserCode returning the source text as it came.
wrapUserCodeUnchanged(userCode) == userCode

\* wrapUserCode: a trailing expression statement becomes `return <expr>;`
wrapUserCode(userCode) ==
    IF userCode # <<>> /\ userCode[Len(userCode)].kind = "ExpressionStatement"
    THEN [userCode EXCEPT ![Len(userCode)] =
              Stmt("ReturnStatement", userCode[Len(userCode)].value)]
    ELSE userCode

\* (async () => { <wrappedCode> })(): the first return or throw settles it,
\* falling off the end resolves undefined.
RECURSIVE runInContext(_)
runInContext(body) ==
    IF body = <<>> THEN [threw |-> FALSE, value |-> UNDEFINED]
    ELSE IF Head(body).kind = "ReturnStatement"
         THEN [threw |-> FALSE, value |-> Head(body).value]
    ELSE IF Head(body).kind = "ThrowStatement"
         THEN [threw |-> TRUE, value |-> Head(body).value]
    ELSE runInContext(Tail(body))

\* ---------------------------------------------------------------- responses
\* createTextResponse(text); `names` and `error` carry the payload of the
\* profile listings, `error` UNDEFINED being a key JSON.stringify drops.
createTextResponse(kind, text) ==
    [kind |-> kind, text |-> text, names |-> {}, error |-> UNDEFINED]
NoResponse == createTextResponse("none", "")

\* The script run without the try of line 203: what it throws reaches the
\* handler's outer catch (line 243).
ScriptResponseOuterCatch(settled) ==
    IF settled.threw \/ settled.value = "cyclic"
    THEN createTextResponse("Error", settled.value)
    ELSE createTextResponse("Result", settled.value)

\* JSON.stringify(result) inside the try of lines 203-212
ScriptResponse(settled) ==
    IF settled.threw THEN createTextResponse("ExecutionError", settled.value)
    ELSE IF settled.value = "cyclic"
         THEN createTextResponse("ExecutionError", "circular structure")
    ELSE createTextResponse("Result", settled.value)

\* -------------------------------------------------------------------- state
VARIABLES
    \* module-level session state (lines 87-89) and AWS.config
    selectedProfile, selectedProfileCredentials, selectedProfileRegion, awsConfig,
    \* the machine: the clock and the files of ~/.aws/sso/cache
    now, cache,
    \* the tool call in progress and its response
    pc, request, creds, response,
    \* how many more calls that resolve credentials this behaviour explores
    budget,
    \* retryAwsOperation: the handler's loop, the inner loop, the pending timer
    outerAttempt, attempt, resume, waited,
    \* getCredentials locals
    startUrl, scanIdx, validTokenFound, validToken,
    \* the script handed to runInContext
    code,
    \* observation of the current call (call) and of the current run of
    \* getCredentials (run); never read by the program
    call, run,
    \* the handler invocations in progress when requests arrive while earlier
    \* ones are still awaited (calls), and the arguments of the last successful
    \* selection (selection, an observation)
    calls, selection

session == <<selectedProfile, selectedProfileCredentials, selectedProfileRegion, awsConfig>>
machine == <<now, cache>>
retry == <<outerAttempt, attempt, resume, waited>>
locals == <<startUrl, scanIdx, validTokenFound, validToken>>
inflight == <<calls, selection>>
vars == <<session, machine, pc, request, creds, response, budget, retry, locals,
          code, call, run, inflight>>

ProfileArgs == {"plain", "sso", "ssoMissing", "ssoNoUrl", "ghost"}
RegionArgs == {UNDEFINED, "ap-south-1"}

Request(name, profileName, region) ==
    [name |-> name, profileName |-> profileName, region |-> region]
NoRequest == Request("", UNDEFINED, UNDEFINED)

\* What one call has done so far.  `unreadable`: how many of the two
\* configuration sources a list-credentials call could not read; `malformed`:
\* the call's arguments did not parse.
NewCall ==
    [unreadable |-> 0, malformed |-> FALSE, logins |-> 0, missedScans |-> 0,
     exchangeCalls |-> 0, providerCalls |-> 0, scriptRan |-> FALSE]

\* What one run of getCredentials has done so far.
\* `sso`: an SSO step was performed; `mkdirFailed`: fs.mkdir rejected;
\* `firstScan`: what the first scan found
\* ("found", "missed", or "unreadable" when readdir rejected);
\* `reply`: the exchange reply the returned credentials were built from.
NoReply == RoleCredentialsReply(FALSE, FALSE, FALSE, FALSE, FALSE)
NewRun ==
    [configError |-> "none", sso |-> FALSE, mkdirFailed |-> FALSE,
     firstScan |-> "none", logins |-> 0,
     providerCalls |-> 0, legacyCalls |-> 0, reply |-> NoReply, outcome |-> "running"]

InitialCaches == SeqsUpTo(CacheEntries, MaxFiles)

\* A handler invocation in progress: where it is suspended, its arguments
\* (the region argument is drawn where it is first read), the
\* profiles its listCredentials returned, the profile handed to
\* getCredentials, and as observations the sources that listCredentials could
\* read and the configuration its script was started with.  A field is kept
\* for as long as the invocation can still read it.
Slots == 1..MaxInflight
NoConfig == [region |-> UNDEFINED, credentials |-> NoCredentials]
NoCall ==
    [pc |-> "free", name |-> "", profileName |-> UNDEFINED, profiles |-> EmptyMap,
     creds |-> NoProfile, sources |-> <<FALSE, FALSE>>, started |-> NoConfig]
NoSelection == [made |-> FALSE, profile |-> NULL, region |-> UNDEFINED]

\* A freshly started server on a machine with the cache directory `c`.
Fresh(c, b) ==
    /\ selectedProfile = NULL
    /\ selectedProfileCredentials = NoCredentials
    /\ selectedProfileRegion = DefaultRegion
    /\ awsConfig = NoConfig
    /\ now = 0
    /\ cache = c
    /\ pc = "idle"
    /\ request = NoRequest
    /\ creds = NoProfile
    /\ response = NoResponse
    /\ budget = b
    /\ outerAttempt = 0
    /\ attempt = 0
    /\ resume = ""
    /\ waited = 0
    /\ startUrl = ""
    /\ scanIdx = 0
    /\ validTokenFound = FALSE
    /\ validToken = NULL
    /\ code = <<>>
    /\ call = NewCall
    /\ run = NewRun
    /\ calls = [i \in Slots |-> NoCall]
    /\ selection = NoSelection

Init == \E c \in InitialCaches : Fresh(c, 1)

\* region || "us-east-1"
RegionOrDefault(region) == IF region = UNDEFINED THEN DefaultRegion ELSE region

\* ------------------------------------------------------- the handler's entry
\* Every call begins with listCredentials (line 170); what follows depends on
\* the tool name and on whether the arguments parse.
Begin(req) ==
    /\ pc = "idle"
    /\ request' = req
    /\ call' = NewCall
    /\ run' = NewRun
    /\ code' = <<>>
    /\ UNCHANGED inflight

Reply(r) ==
    /\ response' = r
    /\ pc' = "idle"

\* RunAwsCodeSchema.parse / SelectProfileSchema.parse throws a ZodError
CallInvalidArguments ==
    \E name \in {"run-aws-code", "select-profile"} :
        /\ pc = "idle"
        /\ request' = Request(name, UNDEFINED, UNDEFINED)
        /\ call' = [NewCall EXCEPT !.malformed = TRUE]
        /\ run' = NewRun
        /\ code' = <<>>
        /\ Reply(createTextResponse("InvalidArguments", name))
        /\ UNCHANGED inflight
        /\ UNCHANGED <<session, machine, creds, budget, retry, locals>>

\* else { throw new Error(`Unknown tool: ${name}`) }
CallUnknownTool ==
    /\ Begin(Request("no-such-tool", UNDEFINED, UNDEFINED))
    /\ Reply(createTextResponse("Error", "Unknown tool"))
    /\ UNCHANGED <<session, machine, creds, budget, retry, locals>>

\* list-credentials: JSON.stringify({ profiles: Object.keys(profiles), error })
CallListCredentials ==
    \E credOK \in BOOLEAN, cfgOK \in BOOLEAN :
        LET listed == listCredentials(credOK, cfgOK) IN
        /\ pc = "idle"
        /\ request' = Request("list-credentials", UNDEFINED, UNDEFINED)
        /\ call' = [NewCall EXCEPT !.unreadable = (IF credOK THEN 0 ELSE 1) +
                                                  (IF cfgOK THEN 0 ELSE 1)]
        /\ run' = NewRun
        /\ code' = <<>>
        /\ UNCHANGED inflight
        /\ Reply([kind |-> "Profiles", text |-> "",
                  names |-> DOMAIN listed.profiles, error |-> listed.error])
        /\ UNCHANGED <<session, machine, creds, budget, retry, locals>>

\* The guard of line 174 answered FALSE whatever is selected.
NeedsProfileNever(selected, profileName) == FALSE

\* if (!selectedProfile && !profileName)
NeedsProfile(selected, profileName) == selected = NULL /\ profileName = UNDEFINED

\* run-aws-code with nothing selected and no profileName (lines 174-180)
CallRunNoProfile ==
    \E region \in RegionArgs, credOK \in BOOLEAN, cfgOK \in BOOLEAN :
        LET listed == listCredentials(credOK, cfgOK) IN
        /\ NeedsProfile(selectedProfile, UNDEFINED)
        /\ Begin(Request("run-aws-code", UNDEFINED, region))
        /\ Reply([kind |-> "Guidance", text |-> "",
                  names |-> DOMAIN listed.profiles, error |-> UNDEFINED])
        /\ UNCHANGED <<session, machine, creds, budget, retry, locals>>

\* retryAwsOperation(() => getCredentials(profiles[name], name)) is entered
StartResolution(name, profileName) ==
    \E credOK \in BOOLEAN, cfgOK \in BOOLEAN :
        LET listed == listCredentials(credOK, cfgOK) IN
        /\ Begin(Request(name, profileName, UNDEFINED))
        /\ budget > 0
        /\ budget' = budget - 1
        /\ creds' = Lookup(listed.profiles, profileName)
        /\ pc' = "getCredentials"
        /\ outerAttempt' = 1
        /\ attempt' = 0
        /\ resume' = ""
        /\ waited' = 0
        /\ response' = NoResponse
        /\ UNCHANGED <<session, machine, locals>>

CallSelectProfile ==
    \E profile \in ProfileArgs : StartResolution("select-profile", profile)

CallRunWithProfile ==
    \E profileName \in ProfileArgs : StartResolution("run-aws-code", profileName)

\* AWS.config.update, then the await of runInContext on the wrapped code; the
\* call's `code` argument is read when the script settles.
StartScript(region, credentials) ==
    /\ awsConfig' = [region |-> region, credentials |-> credentials]
    /\ response' = NoResponse
    /\ pc' = "runInContext"

\* run-aws-code on the selected profile (no profileName)
CallRunSelected ==
    \E region \in RegionArgs :
        /\ ~NeedsProfile(selectedProfile, UNDEFINED)
        /\ Begin(Request("run-aws-code", UNDEFINED, region))
        /\ StartScript(selectedProfileRegion, selectedProfileCredentials)
        /\ UNCHANGED <<selectedProfile, selectedProfileCredentials,
                       selectedProfileRegion, machine, creds, budget, retry, locals>>

\* The script settles: JSON.stringify(result), or the catch of line 209.  The
\* observation of the call's resolution is closed here.
ScriptSettles ==
    /\ pc = "runInContext"
    /\ \E userCode \in Scripts :
          /\ code' = userCode
          /\ Reply(ScriptResponse(runInContext(wrapUserCode(userCode))))
    /\ call' = [NewCall EXCEPT !.scriptRan = TRUE]
    /\ run' = NewRun
    /\ UNCHANGED <<session, machine, request, creds, budget, retry, locals, inflight>>

\* ------------------------------------------------------ ways a step can end
\* Each of these fixes every variable but the machine, budget and call;
\* Continue leaves the locals of getCredentials to the step.

\* The locals of the try block of lines 309-447 are out of scope.
OutOfScope ==
    /\ startUrl' = ""
    /\ scanIdx' = 0
    /\ validTokenFound' = FALSE
    /\ validToken' = NULL

\* getCredentials goes on with its next step.
Continue(step, a, r) ==
    /\ pc' = step
    /\ attempt' = a
    /\ run' = r
    /\ UNCHANGED <<session, request, response, code, resume, waited, creds,
                   outerAttempt, inflight>>

\* useAWSCredentialsProvider starting with the legacy chain.
EnterChainAtLegacy(r) == Continue("legacy", 0, r) /\ OutOfScope

\* useAWSCredentialsProvider(profileName) is entered (line 452), from the top
\* of getCredentials or from one of its catch clauses.
EnterChain(r) == Continue("provider", 1, r) /\ OutOfScope

\* An inner retryAwsOperation waits delay * attempt before its next attempt.
InnerBackoff(step, r) ==
    /\ pc' = "backoff"
    /\ resume' = step
    /\ waited' = BackoffDelay(attempt)
    /\ run' = r
    /\ UNCHANGED <<session, request, response, code, attempt, creds, outerAttempt,
                   locals, inflight>>

\* The handler's retryAwsOperation has returned or thrown.
CallEnds ==
    /\ creds' = NoProfile
    /\ outerAttempt' = 0
    /\ attempt' = 0
    /\ resume' = ""
    /\ waited' = 0

\* The catch clauses of lines 189 and 227 resetting the selection.
SessionCleared ==
    /\ selectedProfile' = NULL
    /\ selectedProfileCredentials' = NoCredentials
    /\ selectedProfileRegion' = DefaultRegion

\* The catch clauses of lines 189-192 and 227-230 assign nothing.
SessionUntouched ==
    UNCHANGED <<selectedProfile, selectedProfileCredentials, selectedProfileRegion>>

\* The handler's retryAwsOperation catches a rejected getCredentials: another
\* run after delay * attempt, or the rejection reaches the handler's catch
\* ("Authentication failed" / "Failed to authenticate with profile").
RunRejected(message, r) ==
    /\ run' = [r EXCEPT !.outcome = "rejected"]
    /\ IF HasRetryLeft(outerAttempt)
       THEN /\ pc' = "backoff"
            /\ resume' = "getCredentials"
            /\ waited' = BackoffDelay(outerAttempt)
            /\ UNCHANGED <<response, creds, outerAttempt, attempt>>
       ELSE /\ Reply(createTextResponse("AuthenticationFailed", message))
            /\ CallEnds
    /\ OutOfScope
    /\ SessionUntouched
    /\ UNCHANGED <<awsConfig, request, code, inflight>>

\* The region assigned only when the call supplies one.
AssignSessionKeepingRegion(name, credentials, region) ==
    /\ selectedProfile' = name
    /\ selectedProfileCredentials' = credentials
    /\ selectedProfileRegion' = IF region = UNDEFINED THEN selectedProfileRegion
                                                      ELSE region

\* selectedProfile = ...; selectedProfileCredentials = ...;
\* selectedProfileRegion = region || "us-east-1" (lines 184-188, 223-225)
AssignSession(name, credentials, region) ==
    /\ selectedProfile' = name
    /\ selectedProfileCredentials' = credentials
    /\ selectedProfileRegion' = RegionOrDefault(region)

\* The handler's continuation once getCredentials has resolved (lines 187-188,
\* 223-226): the three session fields are assigned in one synchronous stretch.
\* The call's `region` argument is first read here, so it is drawn here.
Resolved(credentials, r) ==
    \E region \in RegionArgs :
        /\ run' = [r EXCEPT !.outcome = "resolved"]
        /\ request' = [request EXCEPT !.region = region]
        /\ AssignSession(request.profileName, credentials, region)
        /\ IF request.name = "select-profile"
           THEN Reply(createTextResponse("Authenticated", "")) /\ UNCHANGED awsConfig
           ELSE StartScript(RegionOrDefault(region), credentials)
        /\ CallEnds
        /\ OutOfScope
        /\ UNCHANGED <<code, inflight>>

\* The loop of line 42 going round without counting the attempt.
NextAttemptUncounted(a) == a

\* attempt++ (line 42)
NextAttempt(a) == a + 1

\* The timer of line 49 fires: the loop of line 42 goes round.
BackoffDone ==
    /\ pc = "backoff"
    /\ pc' = resume
    /\ resume' = ""
    /\ waited' = 0
    /\ IF resume = "getCredentials"
       THEN outerAttempt' = NextAttempt(outerAttempt) /\ UNCHANGED attempt
       ELSE attempt' = NextAttempt(attempt) /\ UNCHANGED outerAttempt
    /\ UNCHANGED <<session, machine, request, creds, response, budget, locals,
                   code, call, run, inflight>>

\* ------------------------------------------------------------ getCredentials
\* A run of getCredentials starts; its locals are not declared yet.
BeginRun ==
    /\ pc = "getCredentials"
    /\ UNCHANGED <<machine, budget, call>>

\* creds is undefined: reading creds.sso_session throws a TypeError
GetCredentialsUndefinedProfile ==
    /\ BeginRun
    /\ ~creds.defined
    /\ RunRejected("TypeError", NewRun)

\* if (creds.sso_session) { ... }
GetCredentialsSso ==
    /\ BeginRun
    /\ creds.defined
    /\ HasSsoSession(creds)
    /\ Continue("readConfig", 0, NewRun)
    /\ UNCHANGED locals

GetCredentialsPlain ==
    /\ BeginRun
    /\ creds.defined
    /\ ~HasSsoSession(creds)
    /\ EnterChain(NewRun)

\* fs.readFile(~/.aws/config) rejects: the catch of line 445
ReadConfigFails ==
    /\ pc = "readConfig"
    /\ EnterChain([run EXCEPT !.sso = TRUE])
    /\ UNCHANGED <<machine, budget, call>>

\* throw new Error(`SSO session ... not found in config`): the catch of line 445
ReadConfigSessionNotFound ==
    /\ pc = "readConfig"
    /\ ~SessionMatch(creds.sso_session)
    /\ EnterChain([run EXCEPT !.sso = TRUE, !.configError = "SessionNotFound"])
    /\ UNCHANGED <<machine, budget, call>>

\* throw new Error('No sso_start_url found in session config'): the same catch
ReadConfigNoStartUrl ==
    /\ pc = "readConfig"
    /\ SessionMatch(creds.sso_session)
    /\ StartUrlOf(creds.sso_session) = ""
    /\ EnterChain([run EXCEPT !.sso = TRUE, !.configError = "NoStartUrl"])
    /\ UNCHANGED <<machine, budget, call>>

ReadConfigOk ==
    /\ pc = "readConfig"
    /\ SessionMatch(creds.sso_session)
    /\ StartUrlOf(creds.sso_session) # ""
    /\ startUrl' = StartUrlOf(creds.sso_session)
    /\ Continue("mkdir", 0, [run EXCEPT !.sso = TRUE])
    /\ UNCHANGED <<machine, budget, call, scanIdx, validTokenFound, validToken>>

\* fs.mkdir(ssoDir, { recursive: true }); a rejection is caught and logged
\* (lines 337-339) and the scan follows either way
Mkdir ==
    /\ pc = "mkdir"
    /\ \E ok \in BOOLEAN :
          Continue("readdir", 0, [run EXCEPT !.mkdirFailed = ~ok])
    /\ UNCHANGED <<machine, budget, call, locals>>

\* The test of line 372 left out: the login runs after every first scan.
ShouldLoginAlways(found) == TRUE

\* if (!validTokenFound): the login is next
ShouldLogin(found) == ~found

\* After the first scan (lines 372 and 407): log in, or exchange the token.
AfterFirstScan(found, r) ==
    /\ IF ShouldLogin(found)
       THEN Continue("login", 0, r)
       ELSE Continue("exchange", 1, r)
    /\ call' = [call EXCEPT !.missedScans = IF found THEN @ ELSE @ + 1]

\* fs.readdir(ssoDir) of line 347; a rejection lands in the catch of line 367
Readdir ==
    /\ pc = "readdir"
    /\ \E ok \in BOOLEAN :
          IF ok
          THEN /\ Continue("scan", 0, run)
               /\ scanIdx' = 1
               /\ UNCHANGED call
          ELSE /\ AfterFirstScan(FALSE, [run EXCEPT !.firstScan = "unreadable"])
               /\ UNCHANGED scanIdx
    /\ UNCHANGED <<machine, budget, startUrl, validTokenFound, validToken>>

\* The loop left at the first file that cannot be read or parsed.
NextFileStopAtUnparsable(c, idx) == IF c[idx].parses THEN idx + 1 ELSE Len(c) + 1

\* for (const file of files): the file after c[idx], whether the turn for
\* c[idx] ended normally or in the catch of lines 363-365 (396-398)
NextFile(c, idx) == idx + 1

\* One turn of the loop of lines 351-366 over the files of the cache
ScanFile ==
    /\ pc = "scan"
    /\ IF scanIdx > Len(cache)
       THEN /\ AfterFirstScan(FALSE, [run EXCEPT !.firstScan = "missed"])
            /\ UNCHANGED <<scanIdx, validTokenFound, validToken>>
       ELSE IF IsValidToken(cache[scanIdx], startUrl, now)
       THEN /\ validTokenFound' = TRUE
            /\ validToken' = cache[scanIdx].accessToken
            /\ AfterFirstScan(TRUE, [run EXCEPT !.firstScan = "found"])
            /\ UNCHANGED scanIdx
       ELSE /\ scanIdx' = NextFile(cache, scanIdx)
            /\ Continue("scan", 0, run)
            /\ UNCHANGED <<validTokenFound, validToken, call>>
    /\ UNCHANGED <<machine, budget, startUrl>>

\* The token file of a start URL is rewritten in place, or added.
RECURSIVE WriteToken(_, _)
WriteToken(c, entry) ==
    IF c = <<>> THEN <<entry>>
    ELSE IF Head(c).parses /\ Head(c).startUrl = entry.startUrl
         THEN <<entry>> \o Tail(c)
    ELSE <<Head(c)>> \o WriteToken(Tail(c), entry)

\* What `aws sso login` may leave in the cache directory: nothing new, or a
\* fresh token file for the session's start URL.
LoginOutcomes(c, url, t) == {c, WriteToken(c, TokenFile(url, "tok", t + 1))}

\* execPromise resolved (exit status 0): the re-scan follows
LoginExitAllowsRescan(exit) == exit = 0

\* await execPromise(`aws sso login --profile ${profileName}`); a rejection
\* (non-zero exit, command not found) lands in the catch of line 401
Login ==
    /\ pc = "login"
    /\ \E exit \in {0, 1}, written \in LoginOutcomes(cache, startUrl, now) :
          LET r == [run EXCEPT !.logins = @ + 1]
          IN /\ cache' = written
             /\ IF LoginExitAllowsRescan(exit)
                THEN Continue("rereaddir", 0, r) /\ UNCHANGED locals
                ELSE EnterChain(r)
    /\ call' = [call EXCEPT !.logins = @ + 1]
    /\ UNCHANGED <<now, budget>>

\* fs.readdir(ssoDir) of line 385; a rejection lands in the catch of line 401
Rereaddir ==
    /\ pc = "rereaddir"
    /\ \E ok \in BOOLEAN :
          IF ok
          THEN /\ Continue("rescan", 0, run)
               /\ scanIdx' = 1
               /\ UNCHANGED <<startUrl, validTokenFound, validToken>>
          ELSE EnterChain(run)
    /\ UNCHANGED <<machine, budget, call>>

\* One turn of the loop of lines 386-400
RescanFile ==
    /\ pc = "rescan"
    /\ IF scanIdx > Len(cache)
       THEN EnterChain(run)
       ELSE IF IsValidToken(cache[scanIdx], startUrl, now)
       THEN /\ validTokenFound' = TRUE
            /\ validToken' = cache[scanIdx].accessToken
            /\ Continue("exchange", 1, run)
            /\ UNCHANGED <<scanIdx, startUrl>>
       ELSE /\ scanIdx' = NextFile(cache, scanIdx)
            /\ Continue("rescan", 0, run)
            /\ UNCHANGED <<validTokenFound, validToken, startUrl>>
    /\ UNCHANGED <<machine, budget, call>>

\* sso.getRoleCredentials(...).promise() under retryAwsOperation (lines 415-421),
\* then the checks of lines 423-431; every throw lands in the catch of line 439.
Exchange ==
    /\ pc = "exchange"
    /\ \/ \* the request rejects
          IF HasRetryLeft(attempt) THEN InnerBackoff("exchange", run) ELSE EnterChain(run)
       \/ \* the request resolves
          \E reply \in RoleCredentialsResponses :
             IF IsCompleteRoleCredentials(reply)
             THEN Resolved(Credentials("sso", request.profileName),
                           [run EXCEPT !.reply = reply])
             ELSE EnterChain(run)
    /\ call' = [call EXCEPT !.exchangeCalls = @ + 1]
    /\ UNCHANGED <<machine, budget>>

\* ------------------------------------------------ useAWSCredentialsProvider
\* provider() of fromNodeProviderChain under retryAwsOperation (lines 473-475);
\* once the retries are used up the catch of line 485 turns to the legacy chain
Provider ==
    /\ pc = "provider"
    /\ \/ \* the provider rejects
          LET r == [run EXCEPT !.providerCalls = @ + 1]
          IN IF HasRetryLeft(attempt)
             THEN InnerBackoff("provider", r)
             ELSE Continue("legacy", 0, r) /\ UNCHANGED locals
       \/ \* the provider resolves
          Resolved(Credentials("provider", request.profileName),
                   [run EXCEPT !.providerCalls = @ + 1])
    /\ call' = [call EXCEPT !.providerCalls = @ + 1]
    /\ UNCHANGED <<machine, budget>>

\* chain.resolve of the AWS SDK v2 CredentialProviderChain (lines 489-513)
Legacy ==
    /\ pc = "legacy"
    /\ \/ \* reject(err): getCredentials rejects with v2Error
          RunRejected("v2Error", [run EXCEPT !.legacyCalls = @ + 1])
       \/ \* resolve(creds)
          Resolved(Credentials("legacy", request.profileName),
                   [run EXCEPT !.legacyCalls = @ + 1])
    /\ UNCHANGED <<machine, budget, call>>

\* ------------------------------------------------------------------- clock
\* Time is seen to pass while the server waits for a call and while the login
\* command runs.
Tick ==
    /\ pc \in {"idle", "rereaddir"}
    /\ now < MaxTime
    /\ now' = now + 1
    /\ UNCHANGED <<session, cache, pc, request, creds, response, budget, retry,
                   locals, code, call, run, inflight>>

Next ==
    \/ CallInvalidArguments
    \/ CallUnknownTool
    \/ CallListCredentials
    \/ CallRunNoProfile
    \/ CallSelectProfile
    \/ CallRunWithProfile
    \/ CallRunSelected
    \/ ScriptSettles
    \/ BackoffDone
    \/ GetCredentialsUndefinedProfile
    \/ GetCredentialsSso
    \/ GetCredentialsPlain
    \/ ReadConfigFails
    \/ ReadConfigSessionNotFound
    \/ ReadConfigNoStartUrl
    \/ ReadConfigOk
    \/ Mkdir
    \/ Readdir
    \/ ScanFile
    \/ Login
    \/ Rereaddir
    \/ RescanFile
    \/ Exchange
    \/ Provider
    \/ Legacy
    \/ Tick

Spec == Init /\ [][Next]_vars

\* ------------------------------------------- select-profile called repeatedly
\* A server that receives MaxCalls calls of select-profile for the SSO
\* profile, on a machine whose cache holds at most one file at the start.
SelectCaches == SeqsUpTo(CacheEntries, 1)

InitSelect == \E c \in SelectCaches : Fresh(c, MaxCalls)

CallSelectSso == StartResolution("select-profile", "sso")

NextSelect ==
    \/ CallSelectSso
    \/ BackoffDone
    \/ GetCredentialsSso
    \/ ReadConfigFails
    \/ ReadConfigOk
    \/ Mkdir
    \/ Readdir
    \/ ScanFile
    \/ Login
    \/ Rereaddir
    \/ RescanFile
    \/ Exchange
    \/ Provider
    \/ Legacy
    \/ Tick

SpecSelect == InitSelect /\ [][NextSelect]_vars

\* ------------------------------------------------- several resolving calls
\* A server on a machine with an empty cache directory that receives any
\* calls, MaxCalls of which resolve credentials.
InitCalls == Fresh(<<>>, MaxCalls)

SpecCalls == InitCalls /\ [][Next]_vars

\* ------------------------------------------------- every await is answered
\* The steps of a resolution: each is the continuation of an await (a file
\* read, the login command, a network call, the backoff timer).
ResolutionStep ==
    \/ BackoffDone
    \/ GetCredentialsUndefinedProfile
    \/ GetCredentialsSso
    \/ GetCredentialsPlain
    \/ ReadConfigFails
    \/ ReadConfigSessionNotFound
    \/ ReadConfigNoStartUrl
    \/ ReadConfigOk
    \/ Mkdir
    \/ Readdir
    \/ ScanFile
    \/ Login
    \/ Rereaddir
    \/ RescanFile
    \/ Exchange
    \/ Provider
    \/ Legacy

\* The server where every external call eventually returns: a pending
\* promise is settled and its continuation runs.
SpecReturns == Init /\ [][Next]_vars /\ WF_vars(ResolutionStep)

\* ------------------------------------------- requests arriving during a call
\* The handler is an async function registered with setRequestHandler (line
\* 166); nothing in it queues or locks, so a request that arrives while an
\* earlier invocation is suspended at an await starts a second invocation.
\* The invocations run one synchronous stretch at a time, from one await to
\* the next: await listCredentials() (line 170), await retryAwsOperation(()
\* => getCredentials(...)) (lines 184, 220) and await runInContext(...) (line
\* 204).  getCredentials touches neither the session nor AWS.config; here it
\* is the await alone, settling with any of the outcomes it has.
ToolNames == {"run-aws-code", "list-credentials", "select-profile", "no-such-tool"}
InflightProfiles == {"plain", "sso"}

single == <<machine, pc, request, creds, response, budget, retry, locals, code,
            call, run>>

InitInflight == Fresh(<<>>, 0)

\* A request arrives: the handler runs up to its first await.  The body of
\* listCredentials has no await, so both files are read in this stretch.
Accept ==
    \E i \in Slots, name \in ToolNames, profileName \in InflightProfiles \cup {UNDEFINED},
       credOK \in BOOLEAN, cfgOK \in BOOLEAN :
        /\ calls[i].pc = "free"
        /\ name = "select-profile" => profileName # UNDEFINED
        /\ name \in {"list-credentials", "no-such-tool"} => profileName = UNDEFINED
        /\ calls' = [calls EXCEPT ![i] =
              [NoCall EXCEPT !.pc = "listCredentials", !.name = name,
                             !.profileName = profileName,
                             !.profiles = listCredentials(credOK, cfgOK).profiles,
                             !.sources = <<credOK, cfgOK>>]]
        /\ UNCHANGED <<session, selection, single>>

\* The invocation in slot i returns its response.
Returns(i) == calls' = [calls EXCEPT ![i] = NoCall]

\* list-credentials, an unknown tool, or run-aws-code with nothing selected
\* and no profileName: the response is returned after the first await.
ReturnsAfterList ==
    \E i \in Slots :
        /\ calls[i].pc = "listCredentials"
        /\ \/ calls[i].name \in {"list-credentials", "no-such-tool"}
           \/ /\ calls[i].name = "run-aws-code"
              /\ NeedsProfile(selectedProfile, calls[i].profileName)
        /\ Returns(i)
        /\ UNCHANGED <<session, selection, single>>

\* select-profile, or run-aws-code with a profileName: getCredentials is
\* called with profiles[profileName] and awaited.
AwaitsGetCredentials ==
    \E i \in Slots :
        /\ calls[i].pc = "listCredentials"
        /\ calls[i].name \in {"run-aws-code", "select-profile"}
        /\ calls[i].profileName # UNDEFINED
        /\ calls' = [calls EXCEPT ![i] =
              [NoCall EXCEPT !.pc = "getCredentials", !.name = calls[i].name,
                             !.profileName = calls[i].profileName,
                             !.creds = Lookup(calls[i].profiles, calls[i].profileName)]]
        /\ UNCHANGED <<session, selection, single>>

\* AWS.config.update({ region: selectedProfileRegion, credentials:
\* selectedProfileCredentials }), then the wrapped script is started and
\* awaited.  Stated over the session as it is after this stretch.
StartsScript(i) ==
    /\ awsConfig' = [region |-> selectedProfileRegion',
                     credentials |-> selectedProfileCredentials']
    /\ calls' = [calls EXCEPT ![i] =
          [NoCall EXCEPT !.pc = "runInContext", !.started = awsConfig']]

\* run-aws-code without a profileName on the selected profile
RunsOnSelected ==
    \E i \in Slots :
        /\ calls[i].pc = "listCredentials"
        /\ calls[i].name = "run-aws-code"
        /\ calls[i].profileName = UNDEFINED
        /\ ~NeedsProfile(selectedProfile, calls[i].profileName)
        /\ SessionUntouched
        /\ StartsScript(i)
        /\ UNCHANGED <<selection, single>>

\* The awaited retryAwsOperation rejects: the catch of line 189 or 227
\* returns the failure response.
GetCredentialsRejects ==
    \E i \in Slots :
        /\ calls[i].pc = "getCredentials"
        /\ Returns(i)
        /\ SessionUntouched
        /\ UNCHANGED <<awsConfig, selection, single>>

\* The sources a resolution can return credentials from.
CredentialSources(profile) ==
    IF HasSsoSession(profile) THEN {"sso", "provider", "legacy"}
                              ELSE {"provider", "legacy"}

\* The awaited retryAwsOperation resolves: the session is assigned in the
\* stretch that follows, which for run-aws-code goes on to start the script.
GetCredentialsResolves ==
    \E i \in Slots :
        /\ calls[i].pc = "getCredentials"
        /\ calls[i].creds.defined
        /\ \E source \in CredentialSources(calls[i].creds), region \in RegionArgs :
              /\ AssignSession(calls[i].profileName,
                               Credentials(source, calls[i].profileName), region)
              /\ selection' = [made |-> TRUE, profile |-> calls[i].profileName,
                               region |-> region]
        /\ IF calls[i].name = "select-profile"
           THEN Returns(i) /\ UNCHANGED awsConfig
           ELSE StartsScript(i)
        /\ UNCHANGED single

\* The awaited script settles and the response is returned.
ScriptReturns ==
    \E i \in Slots :
        /\ calls[i].pc = "runInContext"
        /\ Returns(i)
        /\ UNCHANGED <<session, selection, single>>

NextInflight ==
    \/ Accept
    \/ ReturnsAfterList
    \/ AwaitsGetCredentials
    \/ RunsOnSelected
    \/ GetCredentialsRejects
    \/ GetCredentialsResolves
    \/ ScriptReturns

SpecInflight == InitInflight /\ [][NextInflight]_vars

\* ---------------------------------------------------------------- the claims
SsoSteps == {"readConfig", "mkdir", "readdir", "scan", "login", "rereaddir",
             "rescan", "exchange"}
ChainSteps == {"provider", "legacy"}

\* C1: when the named sso-session is not defined, or has no start URL, the
\* resolution fails with a configuration error: the provider chain is not
\* tried and no credentials are returned.
C1_ConfigErrorFailsResolution ==
    run.configError # "none" =>
        /\ pc \notin ChainSteps
        /\ run.providerCalls = 0
        /\ run.legacyCalls = 0
        /\ run.outcome # "resolved"

\* A script that completes without a return value: no return statement, no
\* throw, and no trailing bare expression.
CompletesWithoutValue(userCode) ==
    /\ \A i \in 1..Len(userCode) :
          userCode[i].kind \notin {"ReturnStatement", "ThrowStatement"}
    /\ \/ userCode = <<>>
       \/ userCode[Len(userCode)].kind # "ExpressionStatement"

\* C2: a script that completes without producing a return value yields an
\* explicit failure outcome in the run-script response, never an empty or
\* successful one.
C2_NoReturnValueIsFailure ==
    (pc = "idle" /\ call.scriptRan /\ CompletesWithoutValue(code)) =>
        /\ response.kind = "ExecutionError"
        /\ response.text # UNDEFINED

\* C3: when a configuration source cannot be read, list-profiles reports it in
\* the returned error field; with neither source readable the profile list is
\* empty and the error is non-null.
C3_UnreadableSourceIsReported ==
    (response.kind = "Profiles" /\ call.unreadable > 0) =>
        /\ response.error # UNDEFINED
        /\ call.unreadable = 2 => response.names = {}

\* C4: after the login command has been invoked the cache is re-scanned,
\* whatever the command's exit status.
C4_RescanWhateverExitStatus ==
    [][pc = "login" => pc' = "rereaddir"]_vars

\* C5: within one select-profile or run-script call the role-credential
\* exchange and the unified provider chain are each attempted at most
\* maxRetries times in total.
C5_AtMostThreeAttemptsPerCall ==
    /\ call.exchangeCalls <= maxRetries
    /\ call.providerCalls <= maxRetries

\* C6: within one run of the resolution the provider step is invoked at most
\* maxRetries times; when its third attempt succeeds the resolution ends
\* resolved with the provider's credentials; the next chain step is tried
\* after, and only after, maxRetries failures of the provider step.
C6_ProviderRetryBound ==
    /\ run.providerCalls <= maxRetries
    /\ (pc = "provider" /\ run.outcome = "running") => run.providerCalls = attempt - 1
    /\ (pc = "legacy" \/ run.legacyCalls > 0) => run.providerCalls = maxRetries
    /\ (run.outcome = "running" /\ run.providerCalls = maxRetries) =>
          pc = "legacy"
    /\ (run.outcome = "resolved" /\ run.providerCalls > 0 /\ run.legacyCalls = 0) =>
          selectedProfileCredentials = Credentials("provider", selectedProfile)

\* The provider step failed twice and succeeded on its third attempt, in a
\* call whose earlier run had abandoned the provider step after three failures.
C6_Witness ==
    /\ run.outcome = "resolved"
    /\ run.providerCalls = maxRetries
    /\ run.legacyCalls = 0
    /\ call.providerCalls = 2 * maxRetries
    /\ selectedProfileCredentials.source = "provider"

\* C7: for a profile without an sso_session key no SSO step is performed: the
\* session lookup, the cache scan, the login and the exchange never happen,
\* and the resolution is in the provider chain.
C7_NoSsoStepsWithoutSsoSession ==
    (creds.defined /\ creds.sso_session = "" /\ pc \notin {"idle", "getCredentials"}) =>
        /\ pc \notin SsoSteps
        /\ pc = "backoff" => resume \notin SsoSteps
        /\ ~run.sso
        /\ run.configError = "none"
        /\ run.firstScan = "none"
        /\ run.logins = 0
        /\ call.logins = 0
        /\ call.missedScans = 0
        /\ call.exchangeCalls = 0

\* A profile without sso_session is in the provider chain.
C7_Witness ==
    /\ pc = "provider"
    /\ creds.defined
    /\ creds.sso_session = ""
    /\ request.profileName = "plain"
    /\ ~run.sso

\* Some file of the cache is a valid token for the start URL at time t.
HoldsValidToken(c, url, t) ==
    \E i \in 1..Len(c) :
        /\ c[i].parses
        /\ c[i].startUrl = url
        /\ c[i].accessToken # ""
        /\ c[i].expiresAt > t

\* C8: the login command is invoked only when the first cache scan of a
\* resolution finds no valid token; when the scan reads a cache that holds a
\* still-valid token for the session, as in a second select-profile for the
\* same profile, the login is not invoked.
C8_LoginOnlyAfterMissedScan ==
    /\ pc = "login" => run.firstScan \in {"missed", "unreadable"} /\ ~validTokenFound
    /\ run.logins > 0 => run.firstScan \in {"missed", "unreadable"}
    /\ run.firstScan = "found" => (run.logins = 0 /\ pc # "login")
    /\ call.logins <= call.missedScans
    /\ (pc = "login" /\ run.firstScan = "missed") =>
          ~HoldsValidToken(cache, startUrl, now)

\* The second select-profile for the SSO profile has scanned the cache, found
\* the token that the first call's login left there, and gone to the exchange
\* without a login.
C8_Witness ==
    /\ budget = 0
    /\ selectedProfile = "sso"
    /\ selectedProfileCredentials.source = "sso"
    /\ request.name = "select-profile"
    /\ request.profileName = "sso"
    /\ pc = "exchange"
    /\ run.firstScan = "found"
    /\ call.logins = 0
    /\ HoldsValidToken(cache, startUrl, now)

\* A scan is about to examine the file cache[scanIdx].
Examines == pc \in {"scan", "rescan"} /\ scanIdx <= Len(cache)

\* C9 as stated: an entry is accepted exactly when its start URL equals the
\* session's and its expiry is strictly later than the current time.
C9_ValidIffUrlAndExpiry ==
    [][Examines =>
        (validTokenFound' <=>
            /\ cache[scanIdx].parses
            /\ cache[scanIdx].startUrl = startUrl
            /\ cache[scanIdx].expiresAt > now)]_vars

\* C9 amended: in the first scan and in the re-scan an entry is accepted
\* exactly when its start URL equals the session's, it carries a non-empty
\* access token, and its expiry is strictly later than the current time; an
\* entry whose expiry equals the current time is rejected.
C9_ValidIffUrlTokenAndExpiry ==
    [][Examines =>
        (validTokenFound' <=>
            /\ cache[scanIdx].parses
            /\ cache[scanIdx].startUrl = startUrl
            /\ cache[scanIdx].accessToken # ""
            /\ cache[scanIdx].expiresAt > now)]_vars

\* The first scan has rejected an entry for the session's start URL without an
\* access token and one whose expiry equals the current time.
C9_Witness ==
    /\ pc = "scan"
    /\ scanIdx = 3
    /\ startUrl = "u1"
    /\ now = 1
    /\ cache = <<TokenFile("u1", "", 1), TokenFile("u1", "tok", 1)>>
    /\ ~validTokenFound

\* C10: a resolution ends resolved through SSO only with an exchange reply
\* that carries access key, secret key, session token and expiry; a run that
\* reached the exchange is rejected only once the provider chain has been
\* tried to its end.
C10_SsoResolvedOnlyComplete ==
    /\ (run.outcome = "resolved" /\ run.providerCalls = 0 /\ run.legacyCalls = 0) =>
          /\ selectedProfileCredentials = Credentials("sso", selectedProfile)
          /\ run.reply.roleCredentials
          /\ run.reply.accessKeyId
          /\ run.reply.secretAccessKey
          /\ run.reply.sessionToken
          /\ run.reply.expiration
    /\ run.reply # NoReply => (run.outcome = "resolved" /\ run.providerCalls = 0)
    /\ (run.outcome = "rejected" /\ run.sso) =>
          (run.providerCalls = maxRetries /\ run.legacyCalls = 1)
    /\ (pc = "backoff" /\ resume = "exchange") => run.outcome = "running"

\* A resolution has ended resolved through SSO on a complete reply, in a call
\* whose earlier run went on with the provider chain after its exchange.
C10_Witness ==
    /\ run.outcome = "resolved"
    /\ selectedProfileCredentials.source = "sso"
    /\ IsCompleteRoleCredentials(run.reply)
    /\ call.exchangeCalls >= 2
    /\ call.providerCalls >= maxRetries
    /\ call.logins = 0

\* C11: with calls interleaving at their awaits, the selected profile name,
\* the credentials and the region all come from the same successful selection,
\* or all three are at their initial values.
C11_SessionFromOneSelection ==
    \/ /\ ~selection.made
       /\ selectedProfile = NULL
       /\ selectedProfileCredentials = NoCredentials
       /\ selectedProfileRegion = "us-east-1"
    \/ /\ selection.made
       /\ selectedProfile = selection.profile
       /\ selectedProfileCredentials.profile = selection.profile
       /\ selectedProfileRegion =
             (IF selection.region = UNDEFINED THEN "us-east-1" ELSE selection.region)

\* While the script of one call runs on profile plain, a later call has
\* selected profile sso with a region of its own.
C11_Witness ==
    /\ calls[1].pc = "runInContext"
    /\ calls[1].started.credentials.profile = "plain"
    /\ calls[2].pc = "listCredentials"
    /\ selectedProfile = "sso"
    /\ selectedProfileCredentials.profile = "sso"
    /\ selectedProfileRegion = "ap-south-1"

\* C12: a run-script call that executes the script configures the client with
\* the call's region argument, or with us-east-1 when the call supplies none.
C12_ClientUsesCallRegion ==
    (pc = "runInContext" /\ request.name = "run-aws-code") =>
        awsConfig.region =
            (IF request.region = UNDEFINED THEN "us-east-1" ELSE request.region)

\* C13: run-script with no profile selected and no profileName returns the
\* guidance message with the available profile names, executes no script,
\* resolves no credentials and leaves the session and the client alone.
C13_GuidanceWithoutProfile ==
    [][(/\ pc = "idle"
        /\ now' = now
        /\ selectedProfile = NULL
        /\ request'.name = "run-aws-code"
        /\ request'.profileName = UNDEFINED
        /\ ~call'.malformed)
       =>
       (/\ pc' = "idle"
        /\ response'.kind = "Guidance"
        /\ response'.names \subseteq (DOMAIN CredentialsFile \cup DOMAIN ConfigFile)
        /\ ~call'.scriptRan
        /\ call'.providerCalls = 0
        /\ budget' = budget
        /\ selectedProfile' = selectedProfile
        /\ selectedProfileCredentials' = selectedProfileCredentials
        /\ selectedProfileRegion' = selectedProfileRegion
        /\ awsConfig' = awsConfig)]_vars

\* The guidance message has been returned, naming the profiles.
C13_Witness ==
    /\ pc = "idle"
    /\ response.kind = "Guidance"
    /\ response.names = DOMAIN ConfigFile
    /\ request.name = "run-aws-code"
    /\ selectedProfile = NULL
    /\ awsConfig = NoConfig

\* The first statement of the script that settles it, 0 when none does.
SettlingStatement(userCode) ==
    LET settling == {i \in 1..Len(userCode) :
                        userCode[i].kind \in {"ReturnStatement", "ThrowStatement"}}
    IN IF settling = {} THEN 0
       ELSE CHOOSE i \in settling : \A j \in settling : i <= j

\* The script throws.
ScriptThrows(userCode) ==
    /\ SettlingStatement(userCode) # 0
    /\ userCode[SettlingStatement(userCode)].kind = "ThrowStatement"

\* The value the script produces: that of its first return, else that of its
\* trailing bare expression, else none.
ScriptValue(userCode) ==
    IF SettlingStatement(userCode) # 0
    THEN userCode[SettlingStatement(userCode)].value
    ELSE IF userCode # <<>> /\ userCode[Len(userCode)].kind = "ExpressionStatement"
         THEN userCode[Len(userCode)].value
    ELSE UNDEFINED

ErrorKinds == {"ExecutionError", "AuthenticationFailed", "InvalidArguments", "Error"}

C15_NormalizationKeepsValue ==
    (pc = "idle" /\ call.scriptRan) =>
        /\ Len(wrapUserCode(code)) = Len(code)
        /\ \A i \in 1..(Len(code) - 1) : wrapUserCode(code)[i] = code[i]
        /\ (code # <<>> /\ code[Len(code)].kind = "ReturnStatement") =>
              wrapUserCode(code) = code
        /\ (/\ code # <<>>
            /\ code[Len(code)].kind \in {"ExpressionStatement", "ReturnStatement"}
            /\ code[Len(code)].value = "42"
            /\ \A i \in 1..(Len(code) - 1) :
                  code[i].kind \notin {"ReturnStatement", "ThrowStatement"})
           => response = createTextResponse("Result", "42")

\* A script of a declaration followed by a bare expression has yielded the
\* expression's value.
C15_Witness ==
    /\ pc = "idle"
    /\ call.scriptRan
    /\ code = <<Stmt("VariableStatement", UNDEFINED), Stmt("ExpressionStatement", "42")>>
    /\ response.kind = "Result"
    /\ response.text = "42"

\* C16: the profile map of listCredentials is the union of the profiles of
\* the sources it could read, and a name defined in both has the config
\* file's definition.
C16_UnionSecondSourceWins ==
    \A i \in Slots :
        calls[i].pc = "listCredentials" =>
            LET first == IF calls[i].sources[1] THEN CredentialsFile ELSE EmptyMap
                second == IF calls[i].sources[2] THEN ConfigFile ELSE EmptyMap
            IN /\ DOMAIN calls[i].profiles = DOMAIN first \cup DOMAIN second
               /\ \A n \in DOMAIN second : calls[i].profiles[n] = second[n]
               /\ \A n \in DOMAIN first \ DOMAIN second :
                     calls[i].profiles[n] = first[n]

\* Both files were read and profile plain, which both define with different
\* regions, has the config file's region.
C16_Witness ==
    \E i \in Slots :
        /\ calls[i].pc = "listCredentials"
        /\ calls[i].sources = <<TRUE, TRUE>>
        /\ CredentialsFile["plain"].region = "us-west-2"
        /\ calls[i].profiles["plain"].region = "eu-west-1"
        /\ DOMAIN calls[i].profiles = {"plain", "sso", "ssoMissing", "ssoNoUrl"}

\* C17: one call is processed to completion before the next is accepted, so
\* a running script keeps the client configuration it was started with.
C17_ScriptKeepsItsConfiguration ==
    \A i \in Slots :
        calls[i].pc = "runInContext" => awsConfig = calls[i].started

\* C18: during one call the login command is invoked at most once.
C18_OneLoginPerCall == call.logins <= 1

\* C19: the session changes only in the step in which a resolution succeeds,
\* and then to that call's profile; a call whose resolution fails leaves it as
\* it was and executes no script; every other call leaves it unchanged.
C19_SessionChangesOnlyOnSuccess ==
    [][/\ (\/ selectedProfile' # selectedProfile
           \/ selectedProfileCredentials' # selectedProfileCredentials
           \/ selectedProfileRegion' # selectedProfileRegion)
          => (/\ pc \in {"exchange", "provider", "legacy"}
              /\ run.outcome = "running"
              /\ run'.outcome = "resolved"
              /\ selectedProfile' = request.profileName
              /\ selectedProfileCredentials'.profile = request.profileName)
       /\ (run.outcome = "running" /\ run'.outcome = "rejected")
          => (/\ selectedProfile' = selectedProfile
              /\ selectedProfileCredentials' = selectedProfileCredentials
              /\ selectedProfileRegion' = selectedProfileRegion
              /\ awsConfig' = awsConfig
              /\ pc' \in {"backoff", "idle"}
              /\ ~call'.scriptRan
              /\ pc' = "idle" => response'.kind = "AuthenticationFailed")]_vars

\* After profile plain was selected, a call for profile sso has failed and
\* the session is still that of plain.
C19_Witness ==
    /\ pc = "idle"
    /\ budget = 0
    /\ request.profileName = "sso"
    /\ run.outcome = "rejected"
    /\ response.kind = "AuthenticationFailed"
    /\ selectedProfile = "plain"
    /\ selectedProfileCredentials.profile = "plain"

\* C20: the legacy chain is invoked only after the unified provider chain has
\* failed, neither is invoked in a run whose exchange produced complete
\* credentials, the first success ends the run, and when every step fails the
\* call fails with the error of the legacy chain, the last step tried.
C20_ChainOrderFirstSuccessWins ==
    /\ pc = "legacy" => (run.providerCalls = maxRetries /\ run.legacyCalls = 0)
    /\ run.legacyCalls > 0 => (run.providerCalls = maxRetries /\ run.legacyCalls = 1)
    /\ run.reply # NoReply => (run.providerCalls = 0 /\ run.legacyCalls = 0)
    /\ (run.outcome = "resolved" /\ run.legacyCalls = 0 /\ run.providerCalls > 0) =>
          selectedProfileCredentials.source = "provider"
    /\ (run.outcome = "resolved" /\ run.legacyCalls = 1) =>
          selectedProfileCredentials.source = "legacy"
    /\ (run.outcome = "rejected" /\ run.providerCalls > 0) =>
          (run.providerCalls = maxRetries /\ run.legacyCalls = 1)
    /\ (pc = "idle" /\ response.kind = "AuthenticationFailed" /\ run.legacyCalls > 0) =>
          (run.outcome = "rejected" /\ response.text = "v2Error")

\* SSO fell through after an exchange, both chains failed in every run, and
\* the call has failed with the legacy chain's error.
C20_Witness ==
    /\ pc = "idle"
    /\ response = createTextResponse("AuthenticationFailed", "v2Error")
    /\ run.sso
    /\ call.exchangeCalls > 0
    /\ run.providerCalls = maxRetries
    /\ run.legacyCalls = 1
    /\ call.providerCalls = maxRetries * maxRetries

\* ----------------------------------------------------------------------- C21
\* C21: a cache file that cannot be read or parsed is skipped and the scan
\* goes on with the remaining files, so that a valid entry for the session's
\* start URL in another file is still found; a failure to create or to list
\* the cache directory makes the scan find nothing (the login follows) and
\* does not fail the resolution.
C21_UnreadableFileIsSkipped ==
    /\ pc \in {"scan", "rescan"} =>
          /\ scanIdx \in 1..(Len(cache) + 1)
          /\ \A i \in 1..(scanIdx - 1) : ~IsValidToken(cache[i], startUrl, now)
    /\ validTokenFound =>
          \E i \in 1..Len(cache) :
              /\ IsValidToken(cache[i], startUrl, now)
              /\ validToken = cache[i].accessToken
              /\ \A j \in 1..(i - 1) : ~IsValidToken(cache[j], startUrl, now)
    /\ (pc = "login" /\ HoldsValidToken(cache, startUrl, now)) =>
          run.firstScan = "unreadable"
    /\ run.firstScan = "unreadable" =>
          /\ pc = "login" \/ run.logins = 1
          /\ pc = "login" => (~validTokenFound /\ validToken = NULL)
    /\ (run.mkdirFailed \/ run.firstScan = "unreadable") =>
          (run.outcome = "rejected" => run.legacyCalls = 1)

\* The first scan met a file that does not parse, went on, and found the
\* valid token of the session in the file after it.
C21_Witness ==
    /\ pc = "exchange"
    /\ run.firstScan = "found"
    /\ run.logins = 0
    /\ ~run.mkdirFailed
    /\ Len(cache) = 2
    /\ ~cache[1].parses
    /\ IsValidToken(cache[2], startUrl, now)
    /\ validTokenFound
    /\ validToken = cache[2].accessToken

\* ----------------------------------------------------------------------- C22
\* A call is resolving credentials.
Resolving == pc \notin {"idle", "runInContext"}

\* C22: provided every external call eventually returns, every credential
\* resolution started by a tool call reaches a terminal state, resolved with
\* credentials or failed with an error, after a bounded number of attempts:
\* at most maxRetries runs, each with at most maxRetries exchange and
\* maxRetries provider attempts and one legacy attempt.
C22_ResolutionTerminates ==
    /\ [](/\ outerAttempt <= maxRetries
          /\ attempt <= maxRetries
          /\ call.exchangeCalls <= maxRetries * maxRetries
          /\ call.providerCalls <= maxRetries * maxRetries
          /\ call.logins <= maxRetries)
    /\ (Resolving ~> (~Resolving /\ run.outcome \in {"resolved", "rejected"}))

\* A resolution has failed after the handler's retry went back from the
\* provider chain to the SSO steps twice: three runs, each with a login, and
\* the legacy chain's rejection of the third run ended the call.
C22_Witness ==
    /\ pc = "idle"
    /\ response.kind = "AuthenticationFailed"
    /\ run.outcome = "rejected"
    /\ run.legacyCalls = 1
    /\ call.logins = maxRetries
    /\ call.providerCalls = maxRetries * maxRetries

====
